---- MODULE Spec2Model ----
(***************************************************************************)
(* Model of the website knowledge-base scraper: the frontier crawler       *)
(* (scraper.py), the extractive summariser and the query engine            *)
(* (processor.py) and the persisted search path (main.py).                 *)
(*                                                                         *)
(* Strings are sequences of one-character strings, so that str.lower(),    *)
(* str.split() and the substring test `a in b` are computed, not assumed.  *)
(* Scores of search_kb are kept in half points (1.5 points = 3 halves).    *)
(***************************************************************************)
EXTENDS Integers, Sequences, FiniteSets, TLC

VARIABLES
    \* ---- WebsiteScraper (scraper.py) ----
    base_url,         \* self.base_url
    max_pages,        \* self.max_pages
    delay,            \* self.delay
    visited_urls,     \* self.visited_urls
    to_visit_urls,    \* self.to_visit_urls
    scraped_content,  \* the list object self.scraped_content
    page_count,       \* local page_count of the running crawl_website call
    pc,               \* position of the caller in crawl_website
    last_response,    \* what the page fetcher answered to the latest scrape_page
    log,              \* the calls of session.get ("fetch") and time.sleep ("sleep"),
                      \* and the operator's interrupt ("interrupt")
    kbs,              \* the KnowledgeBase objects crawl_website has returned
    files,            \* the files main has written to the output directory
    \* ---- TextProcessor.generate_summary (processor.py) ----
    sentences,        \* result of extract_sentences(text)
    max_sentences,    \* argument max_sentences
    summary,          \* the sentences joined into the returned summary
    sum_pc,
    \* ---- TextProcessor.search_kb / perform_search ----
    corpus,           \* enhanced_kb.processed_content
    query,            \* the query string
    results,          \* outcome of the latest search
    kb_file,          \* the persisted enhanced knowledge base document
    search_pc

crawlVars == <<base_url, max_pages, delay, visited_urls, to_visit_urls,
               scraped_content, page_count, pc, last_response, log, kbs,
               files>>
sumVars == <<sentences, max_sentences, summary, sum_pc>>
searchVars == <<corpus, query, results, kb_file, search_pc>>
vars == <<crawlVars, sumVars, searchVars>>

-----------------------------------------------------------------------------
(* Bounds of the model *)

\* longest list of <a href> elements a served page carries
MaxHrefs == 2
\* largest value drawn for max_pages
MaxPagesLimit == 3
\* number of crawl_website calls made on one WebsiteScraper
MaxCrawls == 2
\* longest sentence sequence handed to generate_summary
MaxSentences == 4
\* largest value drawn for max_sentences
MaxSummaryCap == 3
\* a corpus is a run of at most MaxCorpusRun pages, laid out up to
\* MaxCorpusRepeat times in a row
MaxCorpusRun == 3
MaxCorpusRepeat == 4

-----------------------------------------------------------------------------
(* Strings *)

UpperChars == <<"A","B","C","D","E","F","G","H","I","J","K","L","M",
                "N","O","P","Q","R","S","T","U","V","W","X","Y","Z">>
LowerChars == <<"a","b","c","d","e","f","g","h","i","j","k","l","m",
                "n","o","p","q","r","s","t","u","v","w","x","y","z">>

\* the lowercase letter of every uppercase letter
LowerMap ==
    [c \in {UpperChars[i] : i \in DOMAIN UpperChars} |->
        LowerChars[CHOOSE i \in DOMAIN UpperChars : UpperChars[i] = c]]

\* str.lower() on one character
LowerChar(c) == IF c \in DOMAIN LowerMap THEN LowerMap[c] ELSE c

\* str.lower()
Lower(s) == [i \in DOMAIN s |-> LowerChar(s[i])]

\* the substring test `needle in hay`
Contains(hay, needle) ==
    \E i \in 0..(Len(hay) - Len(needle)) :
        SubSeq(hay, i + 1, i + Len(needle)) = needle

\* str.split(): the maximal runs of non-blank characters
RECURSIVE SplitFrom(_, _, _)
SplitFrom(s, i, cur) ==
    IF i > Len(s)
    THEN IF cur = <<>> THEN <<>> ELSE <<cur>>
    ELSE IF s[i] = " "
         THEN IF cur = <<>>
              THEN SplitFrom(s, i + 1, <<>>)
              ELSE <<cur>> \o SplitFrom(s, i + 1, <<>>)
         ELSE SplitFrom(s, i + 1, Append(cur, s[i]))

Split(s) == SplitFrom(s, 1, <<>>)

\* sequences over S of length at most n
SeqsUpTo(S, n) == UNION {[1..k -> S] : k \in 0..n}

\* the elements of a sequence
Range(s) == {s[i] : i \in DOMAIN s}

-----------------------------------------------------------------------------
(* URLs, the served site and the page fetcher *)

Url(h, p) == [host |-> h, path |-> p, frag |-> ""]

HostEx == <<"e","x",".","c","o","m">>
HostWww == <<"w","w","w",".","E","X",".","c","o","m">>
\* a foreign host whose name ends in the seed's root domain without being
\* a subdomain of it
HostEvil == <<"n","o","t","e","x",".","c","o","m">>

\* the seeds a crawl is started from
Seeds == {Url(HostEx, "/"), Url(HostWww, "/")}

\* the href attributes a served page may carry
Hrefs ==
    { [kind |-> "abs", url |-> Url(HostEx, "/")],
      [kind |-> "abs", url |-> Url(HostWww, "/")],
      [kind |-> "abs", url |-> Url(HostEvil, "/")],
      [kind |-> "rel", path |-> "/b"],
      [kind |-> "frag", frag |-> "top"],
      [kind |-> "mailto"] }

CtHtml == <<"t","e","x","t","/","h","t","m","l">>
CtHtmlUpper == <<"T","e","x","t","/","H","T","M","L">>
CtPlain == <<"t","e","x","t","/","p","l","a","i","n">>
CtJson == <<"a","p","p","l","i","c","a","t","i","o","n","/","j","s","o","n">>
ContentTypes == {CtHtml, CtHtmlUpper, CtPlain, CtJson}

\* the plain text the served page at a URL yields (extract_text_content)
SiteText(url) ==
    IF url.path = "/b" THEN <<"x">>
    ELSE IF url.host = HostEx THEN <<"x", " ", "y">>
    ELSE <<>>

NoBody == <<>>

\* what session.get and the parser can do with one URL: a transport failure,
\* a non-2xx status, markup the parser fails on, or a parsed page of any
\* content type carrying a list of hrefs
Responses ==
    {[kind |-> "error", status |-> 0, content_type |-> <<>>, parse_ok |-> FALSE,
      hrefs |-> NoBody]}
    \cup [kind : {"response"}, status : {404}, content_type : {CtHtml},
          parse_ok : {TRUE}, hrefs : {NoBody}]
    \cup [kind : {"response"}, status : {200}, content_type : {CtHtml},
          parse_ok : {FALSE}, hrefs : {NoBody}]
    \cup [kind : {"response"}, status : {200}, content_type : ContentTypes,
          parse_ok : {TRUE}, hrefs : SeqsUpTo(Hrefs, MaxHrefs)]

NoResponse == [kind |-> "none"]
None == [none |-> TRUE]

-----------------------------------------------------------------------------
(* WebsiteScraper *)

\* str.split(sep): the pieces between separators, empty pieces kept
RECURSIVE SplitOnFrom(_, _, _, _)
SplitOnFrom(s, sep, i, cur) ==
    IF i > Len(s) THEN <<cur>>
    ELSE IF s[i] = sep
         THEN <<cur>> \o SplitOnFrom(s, sep, i + 1, <<>>)
         ELSE SplitOnFrom(s, sep, i + 1, Append(cur, s[i]))

SplitOn(s, sep) == SplitOnFrom(s, sep, 1, <<>>)

\* str.endswith
EndsWith(s, suffix) ==
    /\ Len(suffix) <= Len(s)
    /\ SubSeq(s, Len(s) - Len(suffix) + 1, Len(s)) = suffix

\* urlparse(url).netloc
Netloc(url) == url.host

root_domain_of(netloc) ==
    LET s == Lower(netloc)
        parts == SplitOn(s, ".")
        n == Len(parts)
    IN  IF n >= 2 THEN parts[n - 1] \o <<".">> \o parts[n] ELSE s

\* self.root_domain, set by the constructor from base_url
RootDomains == [seed \in Seeds |-> root_domain_of(Netloc(seed))] @@ <<>>

root_domain == RootDomains[base_url]

is_same_domain_AnyHost(root, url) == Netloc(url) # <<>>

is_same_domain_NoDot(root, url) ==
    Netloc(url) # <<>> /\ EndsWith(Lower(Netloc(url)), root)

\* is_same_domain, with self.root_domain passed as root
is_same_domain(root, url) ==
    LET netloc == Lower(Netloc(url))
    IN  IF netloc = <<>> THEN FALSE
        ELSE netloc = root \/ EndsWith(netloc, <<".">> \o root)

\* urljoin(base_url, href)
normalize_url(href, base) ==
    CASE href.kind = "abs" -> href.url
      [] href.kind = "rel" -> [host |-> base.host, path |-> href.path, frag |-> ""]
      [] href.kind = "frag" -> [host |-> base.host, path |-> base.path, frag |-> href.frag]
      [] OTHER -> [host |-> <<>>, path |-> "mailto", frag |-> ""]

\* href and not href.startswith("#") and not href.startswith("mailto:")
HrefKept(href) == href.kind \notin {"frag", "mailto"}

\* the links of extract_structured_content: list(set(links))
ExtractLinks(root, hrefs, url) ==
    {full_url \in {normalize_url(hrefs[i], url) :
                       i \in {j \in DOMAIN hrefs : HrefKept(hrefs[j])}} :
        is_same_domain(root, full_url)}

extract_structured_content(root, resp, url) ==
    LET text_content == SiteText(url)
    IN  [url |-> url,
         links |-> ExtractLinks(root, resp.hrefs, url),
         word_count |-> IF text_content # <<>> THEN Len(Split(text_content)) ELSE 0]

\* "text/html" in content_type or "text" in content_type
ContentTypeAccepted(content_type) ==
    \/ Contains(content_type, CtHtml)
    \/ Contains(content_type, <<"t","e","x","t">>)

\* scrape_page: the ScrapedContent, or None
scrape_page(root, url, resp) ==
    IF resp.kind = "error" THEN None
    ELSE IF resp.status >= 400 THEN None
    ELSE IF ~ContentTypeAccepted(Lower(resp.content_type)) THEN None
    ELSE IF ~resp.parse_ok THEN None
    ELSE extract_structured_content(root, resp, url)

\* the hosts that make up the seed's site, and whether a URL lies on it
SiteHosts == {HostEx, HostWww}
OnSite(url) == url.host \in SiteHosts

\* the URLs a served page links to, fragments and mail addresses apart
Targets(hrefs, url) ==
    {normalize_url(href, url) : href \in {h \in Range(hrefs) : h.kind \in {"abs", "rel"}}}

\* the response as the page fetcher gave it: what it was, which URLs of the
\* site the served page links to, and whether it links off the site
ResponseSeen(url, resp) ==
    [url |-> url, kind |-> resp.kind, status |-> resp.status,
     content_type |-> resp.content_type, parse_ok |-> resp.parse_ok,
     site_links |-> {t \in Targets(resp.hrefs, url) : OnSite(t)},
     off_site |-> \E t \in Targets(resp.hrefs, url) : ~OnSite(t)]

\* the distinct results scrape_page can have on a URL, over all responses
ScrapeResults(root, url) ==
    {[root |-> root, url |-> url, content |-> scrape_page(root, url, resp),
      response |-> ResponseSeen(url, resp)] : resp \in Responses}

\* the URLs of the served hosts
SiteUrls ==
    [host : {HostEx, HostWww, HostEvil}, path : {"/", "/b"}, frag : {"", "top"}]

\* ScrapeResults of every root domain and URL, computed once
ScrapeTable ==
    [key \in {<<RootDomains[seed], url>> : seed \in Seeds, url \in SiteUrls} |->
        ScrapeResults(key[1], key[2])] @@ <<>>

\* while self.to_visit_urls and page_count < self.max_pages
LoopCondition_OffByOne(pending, count, cap) == pending # {} /\ count <= cap

LoopCondition(pending, count, cap) == pending # {} /\ count < cap

\* self.to_visit_urls.pop(): the set without the URL taken
Pop_Peek(pending, url) == pending

Pop(pending, url) == pending \ {url}

\* self.visited_urls.add(current_url)
MarkVisited_Forgotten(visited, url) == visited

MarkVisited(visited, url) == visited \cup {url}

\* if self.delay > 0 (after the if content block, on every iteration that fetched)
SleepDue_OnSuccessOnly(content, d) == content # None /\ d > 0

SleepDue(content, d) == d > 0

\* link not in self.visited_urls and link not in self.to_visit_urls
NewLinks_IgnoreVisited(content, visited, pending) ==
    {link \in content.links : link \notin pending}

NewLinks(content, visited, pending) ==
    {link \in content.links : link \notin visited /\ link \notin pending}

Sum(f, S) ==
    LET RECURSIVE Acc(_)
        Acc(T) == IF T = {} THEN 0
                  ELSE LET x == CHOOSE y \in T : TRUE IN f[x] + Acc(T \ {x})
    IN  Acc(S)

\* sum(content.word_count for content in self.scraped_content)
TotalWordCount(pages) == Sum([i \in DOMAIN pages |-> pages[i].word_count], DOMAIN pages)

\* kb.scraped_pages is the list object self.scraped_content itself
ScrapedContentRef == "self.scraped_content"

Deref(ref) == IF ref = ScrapedContentRef THEN scraped_content ELSE <<>>

KnowledgeBase ==
    [website_url |-> base_url,
     scraped_pages |-> ScrapedContentRef,
     total_word_count |-> TotalWordCount(scraped_content),
     total_pages |-> Len(scraped_content),
     visited_urls |-> Cardinality(visited_urls),
     max_pages_limit |-> max_pages]

Delays == {0, 1}

InitCrawler ==
    /\ base_url \in Seeds
    /\ max_pages \in 0..MaxPagesLimit
    /\ delay \in Delays
    /\ visited_urls = {}
    /\ to_visit_urls = {base_url}
    /\ scraped_content = <<>>
    /\ page_count = 0
    /\ pc = "idle"
    /\ last_response = NoResponse
    /\ log = <<>>
    /\ kbs = <<>>
    /\ files = {}

\* crawl_website is called: page_count = 0
CrawlStart ==
    /\ pc = "idle"
    /\ Len(kbs) < MaxCrawls
    /\ page_count' = 0
    /\ pc' = "while"
    /\ UNCHANGED <<base_url, max_pages, delay, visited_urls, to_visit_urls,
                   scraped_content, last_response, log, kbs, files>>

\* one iteration of the while loop, up to the sleep
LoopIteration ==
    /\ pc = "while"
    /\ LoopCondition(to_visit_urls, page_count, max_pages)
    /\ \E current_url \in to_visit_urls :
         LET popped == Pop(to_visit_urls, current_url)
         IN  IF current_url \in visited_urls
             THEN /\ to_visit_urls' = popped
                  /\ UNCHANGED <<visited_urls, scraped_content, page_count, pc,
                                 last_response, log>>
             ELSE \E result \in ScrapeTable[<<root_domain, current_url>>] :
                    LET content == result.content
                        visited == MarkVisited(visited_urls, current_url)
                    IN  /\ visited_urls' = visited
                        /\ last_response' = result.response
                        /\ log' = Append(log, "fetch")
                        /\ IF content # None
                           THEN /\ scraped_content' = Append(scraped_content, content)
                                /\ page_count' = page_count + 1
                                /\ to_visit_urls' =
                                      popped \cup NewLinks(content, visited, popped)
                           ELSE /\ to_visit_urls' = popped
                                /\ UNCHANGED <<scraped_content, page_count>>
                        /\ pc' = IF SleepDue(content, delay) THEN "sleep" ELSE "while"
    /\ UNCHANGED <<base_url, max_pages, delay, kbs, files>>

\* time.sleep(self.delay)
Sleep ==
    /\ pc = "sleep"
    /\ log' = Append(log, "sleep")
    /\ pc' = "while"
    /\ UNCHANGED <<base_url, max_pages, delay, visited_urls, to_visit_urls,
                   scraped_content, page_count, last_response, kbs, files>>

\* the loop ends: the KnowledgeBase is assembled and returned
CrawlReturn ==
    /\ pc = "while"
    /\ ~LoopCondition(to_visit_urls, page_count, max_pages)
    /\ kbs' = Append(kbs, KnowledgeBase)
    /\ pc' = "idle"
    /\ UNCHANGED <<base_url, max_pages, delay, visited_urls, to_visit_urls,
                   scraped_content, page_count, last_response, log, files>>

\* the files save_knowledge_base and save_text_summary write
KbJsonFile == "knowledge_base.json"
SummaryTextFile == "summary.txt"

\* if not knowledge_base.scraped_pages
NoContent_Never(pages) == FALSE

NoContent(pages) == pages = <<>>

\* main, after crawl_website has returned to it: with no page it prints
\* "No content was successfully scraped" and exits with status 1, else it
\* writes the knowledge base and the text summary
MainAfterCrawl ==
    /\ pc = "idle"
    /\ Len(kbs) = 1
    /\ IF NoContent(Deref(kbs[1].scraped_pages))
       THEN /\ pc' = "exit_no_content"
            /\ UNCHANGED files
       ELSE /\ pc' = "saved"
            /\ files' = files \cup {KbJsonFile, SummaryTextFile}
    /\ UNCHANGED <<base_url, max_pages, delay, visited_urls, to_visit_urls,
                   scraped_content, page_count, last_response, log, kbs>>

\* the except clauses of scrape_page (requests.exceptions.RequestException,
\* Exception) and what they intercept
Caught_Everything(exc) == TRUE

Caught(exc) == exc \in {"RequestException", "Exception"}

\* KeyboardInterrupt is raised in main's call of crawl_website: at the loop
\* head, inside time.sleep, or inside session.get of scrape_page, the URL
\* being fetched already popped and marked visited. What scrape_page does
\* not intercept reaches main's handler, which prints "Scraping interrupted
\* by user." and exits with status 1.
Interrupt ==
    /\ Len(kbs) = 0
    /\ \/ /\ pc \in {"while", "sleep"}
          /\ log' = Append(log, "interrupt")
          /\ pc' = "interrupted"
          /\ UNCHANGED <<visited_urls, to_visit_urls>>
       \/ /\ pc = "while"
          /\ LoopCondition(to_visit_urls, page_count, max_pages)
          /\ \E current_url \in to_visit_urls \ visited_urls :
                /\ to_visit_urls' = Pop(to_visit_urls, current_url)
                /\ visited_urls' = MarkVisited(visited_urls, current_url)
          /\ log' = log \o <<"fetch", "interrupt">>
          /\ pc' = IF Caught("KeyboardInterrupt")
                   THEN IF SleepDue(None, delay) THEN "sleep" ELSE "while"
                   ELSE "interrupted"
    /\ UNCHANGED <<base_url, max_pages, delay, scraped_content, page_count,
                   last_response, kbs, files>>

IdleSummary ==
    /\ sentences = <<>> /\ max_sentences = 0 /\ summary = <<>> /\ sum_pc = "off"

IdleSearch ==
    /\ corpus = <<>> /\ query = <<>> /\ results = <<>> /\ kb_file = <<>>
    /\ search_pc = "off"

-----------------------------------------------------------------------------
(* Properties of the crawler *)

PageUrls == {scraped_content[i].url : i \in DOMAIN scraped_content}

\* the page recorded for a URL
PageOf(url) == scraped_content[CHOOSE i \in DOMAIN scraped_content :
                                  scraped_content[i].url = url]

NoUrlTwice(pages) ==
    \A i, j \in DOMAIN pages : i # j => pages[i].url # pages[j].url

\* crawl_website has returned at least once and is not running
Returned == pc = "idle" /\ Len(kbs) >= 1

\* the latest fetch ended in a transport failure, a non-2xx status or a
\* parsing failure
LastFetchFailed ==
    \/ last_response.kind = "error"
    \/ last_response.kind = "response" /\ last_response.status >= 400
    \/ last_response.kind = "response" /\ ~last_response.parse_ok

\* the latest fetch was answered 2xx with parsable markup
LastFetchServed ==
    /\ last_response.kind = "response"
    /\ last_response.status < 400
    /\ last_response.parse_ok

\* C1: in every reachable state of crawl_website the visited set has at least
\* as many URLs as there are recorded pages, and no URL is recorded twice.
C1_VisitedCoversPages ==
    /\ Cardinality(visited_urls) >= Len(scraped_content)
    /\ NoUrlTwice(scraped_content)

\* a crawl over a cycle (a recorded page links back to a recorded page) in
\* which a fetch failed and at least two pages were recorded
C1_Witness ==
    /\ Len(scraped_content) >= 2
    /\ Cardinality(visited_urls) > Len(scraped_content)
    /\ \E i, j \in DOMAIN scraped_content :
          i < j /\ scraped_content[i].url \in scraped_content[j].links

\* the URLs reachable from the seed over the links of the recorded pages
RECURSIVE Closure(_)
Closure(S) ==
    LET step == S \cup UNION {PageOf(u).links : u \in S \cap PageUrls}
    IN  IF step = S THEN S ELSE Closure(step)

Reachable == Closure({base_url})

\* every fetch made so far produced a page
EveryFetchSucceeded == visited_urls = PageUrls

\* C2: when every fetch succeeds and max_pages is at least the number of
\* URLs of the site reachable from the seed, the returned crawl has recorded
\* exactly the seed and the URLs reachable from it, each once, the links of
\* a recorded page being exactly the served links that stay on the site;
\* and no URL off the seed's site is ever fetched or queued.
C2_RecordsExactlyReachable ==
    /\ \A u \in visited_urls \cup to_visit_urls : OnSite(u)
    /\ (LastFetchServed /\ last_response.url \in PageUrls)
          => PageOf(last_response.url).links = last_response.site_links
    /\ (Returned /\ EveryFetchSucceeded /\ Cardinality(Reachable) <= max_pages)
          => /\ PageUrls = Reachable
             /\ NoUrlTwice(scraped_content)
             /\ Len(scraped_content) = Cardinality(Reachable)

\* the fixture shape: three pages recorded over a cycle, the last page
\* served linking off the site, and the crawl returned
C2_Witness ==
    /\ Returned /\ EveryFetchSucceeded /\ Cardinality(Reachable) <= max_pages
    /\ Len(scraped_content) = 3
    /\ last_response.off_site
    /\ base_url \in last_response.site_links

\* C3: the pages recorded by a crawl_website call never exceed max_pages; a
\* URL whose fetch failed adds no page and is not counted; and the call
\* returns only with pending empty or the count no longer below max_pages.
C3_CapAndFailures ==
    /\ page_count <= max_pages
    /\ Len(kbs) = 0 => Len(scraped_content) = page_count
    /\ LastFetchFailed => last_response.url \notin PageUrls
    /\ Returned => (to_visit_urls = {} \/ page_count >= max_pages)
    /\ page_count <= Len(scraped_content)

\* a first crawl that returned at the cap with URLs still pending, after a
\* failed fetch that was followed by a successful one
C3_Witness ==
    /\ Returned /\ Len(kbs) = 1
    /\ max_pages >= 2
    /\ page_count = max_pages
    /\ to_visit_urls # {}
    /\ Cardinality(visited_urls) > Len(scraped_content)

\* C4 (as claimed): a 2xx response whose content type is not text/html
\* yields no page.
C4_NonHtmlYieldsNoPage ==
    (/\ last_response.kind = "response"
     /\ last_response.status < 400
     /\ ~Contains(Lower(last_response.content_type), CtHtml))
        => last_response.url \notin PageUrls

\* C5 (as claimed): a returned KnowledgeBase keeps its page sequence and its
\* totals, so total_word_count is the sum of word_count over its pages.
C5_ReturnedKbFrozen ==
    \A i \in DOMAIN kbs :
        /\ Len(Deref(kbs[i].scraped_pages)) = kbs[i].total_pages
        /\ TotalWordCount(Deref(kbs[i].scraped_pages)) = kbs[i].total_word_count

\* C6: with delay > 0 a sleep lies between any two consecutive fetch
\* attempts; with delay = 0 there is never a sleep.
C6_SleepBetweenFetches ==
    /\ delay > 0 =>
          \A i \in 1..(Len(log) - 1) : ~(log[i] = "fetch" /\ log[i + 1] = "fetch")
    /\ delay = 0 => \A i \in DOMAIN log : log[i] # "sleep"

\* with delay > 0: three fetch attempts, one of which failed
C6_Witness ==
    /\ delay > 0
    /\ Cardinality(visited_urls) = 3
    /\ Len(scraped_content) = 2
    /\ Len(log) >= 5

\* main has left the try block after crawl_website returned to it
MainDone == pc \in {"exit_no_content", "saved"}

\* C11: when no page was recorded, every fetch having failed, the crawl
\* still returns its knowledge base, main ends with the explicit no-content
\* exit and no file is written; files are written only for a crawl that
\* recorded a page.
C11_NoContentNoFiles ==
    /\ MainDone => Len(kbs) = 1
    /\ (MainDone /\ scraped_content = <<>>) =>
          (pc = "exit_no_content" /\ files = {})
    /\ pc = "exit_no_content" => (scraped_content = <<>> /\ files = {})
    /\ files # {} => scraped_content # <<>>

\* the seed was fetched, the fetch failed, and main ended with no content
C11_Witness ==
    /\ pc = "exit_no_content"
    /\ max_pages >= 1
    /\ visited_urls = {base_url}
    /\ LastFetchFailed
    /\ kbs[1].total_pages = 0

\* C12: once the operator's interrupt has arrived in main's crawl, whether
\* at the loop head, during a sleep or during a fetch, the run has ended:
\* crawl_website has returned no knowledge base and no file is written,
\* whatever pages were recorded.
C12_InterruptDiscardsAll ==
    (\E i \in DOMAIN log : log[i] = "interrupt") =>
        /\ pc = "interrupted"
        /\ log[Len(log)] = "interrupt"
        /\ Len(kbs) = 0
        /\ files = {}

\* the interrupt arrived during the fetch of a third URL, two pages being
\* recorded already
C12_Witness ==
    /\ pc = "interrupted"
    /\ Len(scraped_content) = 2
    /\ Cardinality(visited_urls) = 3
    /\ Len(log) >= 2
    /\ log[Len(log) - 1] = "fetch"
    /\ Len(kbs) = 0 /\ files = {}

\* the seed's apex domain: the last two dot-separated labels of its host
ApexOf(seed) ==
    LET labels == SplitOn(Lower(seed.host), ".")
        n == Len(labels)
    IN  IF n >= 2 THEN labels[n - 1] \o <<".">> \o labels[n] ELSE Lower(seed.host)

\* the host of url is the apex domain or a strict subdomain of it
HostWithin(apex, url) ==
    LET host == Lower(url.host)
    IN  \/ host = apex
        \/ /\ Len(host) > Len(apex) + 1
           /\ SubSeq(host, Len(host) - Len(apex) + 1, Len(host)) = apex
           /\ host[Len(host) - Len(apex)] = "."

\* the pairs of a seed and a URL within the seed's apex domain
WithinApex ==
    UNION {IF HostWithin(ApexOf(su[1]), su[2]) THEN {su} ELSE {} :
               su \in Seeds \X SiteUrls}

\* C13: every link of every recorded page has a host that is the seed's
\* apex domain or a strict subdomain of it, and so has every URL in pending
\* or visited other than the seed.
C13_LinksWithinApex ==
    /\ \A i \in DOMAIN scraped_content :
          \A link \in scraped_content[i].links : <<base_url, link>> \in WithinApex
    /\ \A u \in (to_visit_urls \cup visited_urls) \ {base_url} :
          <<base_url, u>> \in WithinApex

\* a page served with a link to the foreign host and a link to a subdomain
\* written in another letter case was recorded, only the latter being kept
\* and queued
C13_Witness ==
    /\ LastFetchServed
    /\ last_response.off_site
    /\ last_response.url \in PageUrls
    /\ base_url.host = HostEx
    /\ PageOf(last_response.url).links = {Url(HostWww, "/")}
    /\ Url(HostWww, "/") \in to_visit_urls

\* the number of session.get calls made so far
FetchCount == Cardinality({i \in DOMAIN log : log[i] = "fetch"})

\* C15: pending and visited are disjoint in every reachable state, so the
\* URL taken from pending is never a visited one (the skipping branch of
\* the loop is not taken), and every fetch is of a URL not fetched before:
\* the fetches made are as many as the visited URLs, failed ones included.
C15_PendingVisitedDisjoint ==
    /\ to_visit_urls \cap visited_urls = {}
    /\ FetchCount = Cardinality(visited_urls)

\* a recorded page links to a URL whose fetch had failed before, and the
\* URL is not queued again
C15_Witness ==
    /\ LastFetchServed
    /\ last_response.url \in PageUrls
    /\ \E u \in visited_urls \ PageUrls :
          /\ u \in PageOf(last_response.url).links
          /\ u \notin to_visit_urls
    /\ FetchCount >= 2

Init == InitCrawler /\ IdleSummary /\ IdleSearch

-----------------------------------------------------------------------------
(* TextProcessor.generate_summary *)

\* The sentences extract_sentences can return. A sentence is its text; words
\* is len(sent.split()) and keywords is len(extract_keywords(sent, 5)) for
\* that text, so equal texts carry equal counts.
SentenceKinds ==
    { [text |-> "A", words |-> 12, keywords |-> 3],
      [text |-> "B", words |-> 20, keywords |-> 5],
      [text |-> "C", words |-> 5, keywords |-> 1],
      [text |-> "D", words |-> 30, keywords |-> 0] }

RECURSIVE Factorial(_)
Factorial(n) == IF n <= 1 THEN 1 ELSE n * Factorial(n - 1)

Min(a, b) == IF a <= b THEN a ELSE b

\* Scores are fractions; they are kept as numerators over the common
\* denominator 20 * n! of a document of n sentences.
ScoreUnit(n) == 20 * Factorial(n)

\* position_score + length_score + keyword_score of the sentence at index i
\* (counted from 0) in a document of n sentences
TotalScore(i, sent, n) ==
    LET position_score == ScoreUnit(n) \div (i + 1)
        length_score == (ScoreUnit(n) \div 20) * Min(sent.words, 20)
        keyword_score == (ScoreUnit(n) \div 10) * sent.keywords
    IN  position_score + length_score + keyword_score

\* list.sort(key=..., reverse=True) on a list of [key, val] entries: stable,
\* so entries of equal key keep their order
RECURSIVE InsertDescending(_, _)
InsertDescending(sorted, x) ==
    IF sorted = <<>> THEN <<x>>
    ELSE IF Head(sorted).key >= x.key
         THEN <<Head(sorted)>> \o InsertDescending(Tail(sorted), x)
         ELSE <<x>> \o sorted

RECURSIVE SortDescending(_)
SortDescending(seq) ==
    IF seq = <<>> THEN <<>>
    ELSE InsertDescending(SortDescending(SubSeq(seq, 1, Len(seq) - 1)), seq[Len(seq)])

\* list.sort(key=...) on a list of [key, val] entries: stable, ascending
RECURSIVE InsertAscending(_, _)
InsertAscending(sorted, x) ==
    IF sorted = <<>> THEN <<x>>
    ELSE IF Head(sorted).key <= x.key
         THEN <<Head(sorted)>> \o InsertAscending(Tail(sorted), x)
         ELSE <<x>> \o sorted

RECURSIVE SortAscending(_)
SortAscending(seq) ==
    IF seq = <<>> THEN <<>>
    ELSE InsertAscending(SortAscending(SubSeq(seq, 1, Len(seq) - 1)), seq[Len(seq)])

\* seq[:n] for n >= 0
Take(seq, n) == SubSeq(seq, 1, Min(n, Len(seq)))

\* sentence_dict = {sent: i for i, sent in enumerate(sentences)}: a later
\* occurrence of a text overwrites the index of an earlier one
SentenceDict(sents, sent) ==
    LET at == {i \in DOMAIN sents : sents[i] = sent}
    IN  IF at = {} THEN 999 ELSE (CHOOSE i \in at : \A j \in at : j <= i) - 1

\* generate_summary on the sentences of the text; the result is the
\* sequence of sentences that " ".join writes out
generate_summary(sents, cap) ==
    IF Len(sents) <= cap THEN sents
    ELSE
        LET n == Len(sents)
            scored_sentences ==
                [i \in 1..n |-> [key |-> TotalScore(i - 1, sents[i], n),
                                 val |-> sents[i]]]
            top == Take(SortDescending(scored_sentences), cap)
            top_sentences ==
                [i \in DOMAIN top |-> [key |-> SentenceDict(sents, top[i].val),
                                       val |-> top[i].val]]
            ordered == SortAscending(top_sentences)
        IN  [i \in DOMAIN ordered |-> ordered[i].val]

IdleCrawler ==
    /\ base_url = Url(HostEx, "/") /\ max_pages = 0 /\ delay = 0
    /\ visited_urls = {} /\ to_visit_urls = {} /\ scraped_content = <<>>
    /\ page_count = 0 /\ pc = "off" /\ last_response = NoResponse
    /\ log = <<>> /\ kbs = <<>> /\ files = {}

InitSummary ==
    /\ sentences \in SeqsUpTo(SentenceKinds, MaxSentences)
    /\ max_sentences \in 0..MaxSummaryCap
    /\ summary = <<>>
    /\ sum_pc = "ready"

GenerateSummary ==
    /\ sum_pc = "ready"
    /\ summary' = generate_summary(sentences, max_sentences)
    /\ sum_pc' = "done"
    /\ UNCHANGED <<sentences, max_sentences>>

NextSummary == GenerateSummary /\ UNCHANGED <<crawlVars, searchVars>>

SummaryInit == IdleCrawler /\ InitSummary /\ IdleSearch

SpecSummary == SummaryInit /\ [][NextSummary]_vars

\* sub can be obtained from seq by deleting elements
RECURSIVE IsSubsequence(_, _)
IsSubsequence(sub, seq) ==
    IF sub = <<>> THEN TRUE
    ELSE IF seq = <<>> THEN FALSE
    ELSE IF Head(sub) = Head(seq) THEN IsSubsequence(Tail(sub), Tail(seq))
    ELSE IsSubsequence(sub, Tail(seq))

\* C7 (as claimed): a document of at most max_sentences sentences is
\* returned whole and in order; of a longer one the summary has exactly
\* max_sentences sentences and is a subsequence of the document, repeated
\* sentences included.
C7_SummaryIsSubsequence ==
    sum_pc = "done" =>
        IF Len(sentences) <= max_sentences
        THEN summary = sentences
        ELSE /\ Len(summary) = max_sentences
             /\ IsSubsequence(summary, sentences)

\* a step of a running crawl_website call: the interpreter goes on to the
\* next statement, every session.get and every time.sleep returning
CrawlStep ==
    \/ LoopIteration /\ UNCHANGED <<sumVars, searchVars>>
    \/ Sleep /\ UNCHANGED <<sumVars, searchVars>>
    \/ CrawlReturn /\ UNCHANGED <<sumVars, searchVars>>

\* main's call of crawl_website on the scraper it has just constructed
MainCrawlStart == CrawlStart /\ Len(kbs) = 0

\* crawl_website called by main and left to run, no interrupt arriving
NextUninterrupted ==
    \/ MainCrawlStart /\ UNCHANGED <<sumVars, searchVars>>
    \/ CrawlStep

SpecUninterrupted == Init /\ [][NextUninterrupted]_vars /\ WF_vars(CrawlStep)

\* C16: a crawl_website call that is running eventually returns its
\* KnowledgeBase, for every max_pages, every link graph and every pattern
\* of fetch successes and failures, given that each fetch and each sleep
\* returns.
C16_CrawlTerminates == (pc \in {"while", "sleep"}) ~> Returned

\* a crawl over a cycle, with a failed fetch, has returned with nothing
\* pending and below the cap
C16_Witness ==
    /\ Returned
    /\ to_visit_urls = {}
    /\ page_count < max_pages
    /\ Cardinality(visited_urls) > Len(scraped_content)
    /\ \E i, j \in DOMAIN scraped_content :
          i < j /\ scraped_content[i].url \in scraped_content[j].links

Next ==
    \/ CrawlStart /\ UNCHANGED <<sumVars, searchVars>>
    \/ LoopIteration /\ UNCHANGED <<sumVars, searchVars>>
    \/ Sleep /\ UNCHANGED <<sumVars, searchVars>>
    \/ CrawlReturn /\ UNCHANGED <<sumVars, searchVars>>
    \/ MainAfterCrawl /\ UNCHANGED <<sumVars, searchVars>>
    \/ Interrupt /\ UNCHANGED <<sumVars, searchVars>>

Spec == Init /\ [][Next]_vars


-----------------------------------------------------------------------------
(* TextProcessor.search_kb, save_enhanced_kb and perform_search *)

\* relevant_content[:10] and results[:10]
TopK == 10

Cat == <<"c","a","t">>
Dog == <<"d","o","g">>
Ox == <<"o","x">>
Space == <<" ">>

\* The enriched pages a corpus is made of: title and text_content of the
\* page record, keywords (lowercase lemmas) and key_phrases (word runs in
\* the letter case of the text, so "Red Ox" and "red ox" are two phrases).
PageKinds ==
    { [title |-> <<"C","a","t">> \o Space \o <<"D","o","g">>,
       text_content |-> <<"C","a","t">> \o Space \o Dog,
       keywords |-> <<Cat, Dog>>,
       key_phrases |-> << <<"C","a","t">> \o Space \o <<"D","o","g">> >>],
      [title |-> <<"O","x">> \o Space \o <<"P","a","g","e">>,
       text_content |-> Ox \o Space \o Cat,
       keywords |-> <<Ox>>,
       key_phrases |-> << <<"R","e","d">> \o Space \o <<"O","x">>,
                         Ox \o Space \o <<"c","a","r","t">>,
                         <<"r","e","d">> \o Space \o Ox >>],
      [title |-> <<"O","x">>,
       text_content |-> <<"a">> \o Space \o <<"C","a","t">>,
       keywords |-> <<>>,
       key_phrases |-> <<>>] }

Queries ==
    { Cat,
      <<"C","a","t">> \o Space \o Dog,
      Ox,
      <<"c">>,
      Dog \o Space \o Space \o Dog,
      <<"z","z">> }

\* a ProcessedContent object holding one enriched page
ProcessedContent(page) ==
    [type |-> "ProcessedContent",
     original_content |-> [type |-> "ScrapedContent", title |-> page.title,
                           text_content |-> page.text_content],
     keywords |-> page.keywords,
     key_phrases |-> page.key_phrases]

\* dataclasses.asdict: the object and the objects in it become dicts
asdict(content) ==
    [type |-> "dict",
     original_content |-> [type |-> "dict", title |-> content.original_content.title,
                           text_content |-> content.original_content.text_content],
     keywords |-> content.keywords,
     key_phrases |-> content.key_phrases]

\* score += 2 for a keyword, score += 3 for a title match, in half points
WordPoints_TitleTwo(word, content) ==
    (IF word \in Range(content.keywords) THEN 4 ELSE 0)
    + (IF Contains(Lower(content.original_content.title), word) THEN 4 ELSE 0)

WordPoints(word, content) ==
    (IF word \in Range(content.keywords) THEN 4 ELSE 0)
    + (IF Contains(Lower(content.original_content.title), word) THEN 6 ELSE 0)

\* for word in query_words: ...
RECURSIVE WordLoop(_, _)
WordLoop(query_words, content) ==
    IF query_words = <<>> THEN 0
    ELSE WordPoints(Head(query_words), content) + WordLoop(Tail(query_words), content)

\* any(word in s.lower() for word in query_words)
AnyWordIn(query_words, str) ==
    \E i \in DOMAIN query_words : Contains(Lower(str), query_words[i])

\* for phrase in content.key_phrases: score += 1.5, in half points
RECURSIVE PhraseLoop(_, _)
PhraseLoop(phrases, query_words) ==
    IF phrases = <<>> THEN 0
    ELSE (IF AnyWordIn(query_words, Head(phrases)) THEN 3 ELSE 0)
         + PhraseLoop(Tail(phrases), query_words)

\* the score search_kb gives one page, in half points
PageScore(content, query_words) ==
    WordLoop(query_words, content)
    + PhraseLoop(content.key_phrases, query_words)
    + (IF AnyWordIn(query_words, content.original_content.text_content) THEN 2 ELSE 0)

\* relevant_content: the (i, score) of the pages with score > 0, in page order
RECURSIVE Relevant(_, _, _)
Relevant(pages, query_words, i) ==
    IF i >= Len(pages) THEN <<>>
    ELSE LET score == PageScore(pages[i + 1], query_words)
         IN  (IF score > 0 THEN <<[key |-> score, val |-> i]>> ELSE <<>>)
             \o Relevant(pages, query_words, i + 1)

\* relevant_content.sort(key=score, reverse=True); return relevant_content[:10]
RankHits_Unsorted(relevant) == Take(relevant, TopK)

RankHits(relevant) == Take(SortDescending(relevant), TopK)

Hits(ranked) == [i \in DOMAIN ranked |-> [page_index |-> ranked[i].val,
                                          score |-> ranked[i].key]]

\* search_kb: reading content.keywords of a dict raises AttributeError
search_kb(processed_content, q) ==
    IF \E i \in DOMAIN processed_content : processed_content[i].type = "dict"
    THEN [status |-> "AttributeError", hits |-> <<>>]
    ELSE [status |-> "ok",
          hits |-> Hits(RankHits(Relevant(processed_content, Split(Lower(q)), 0)))]

\* the document save_enhanced_kb writes and json.load reads back
save_enhanced_kb(processed_content) ==
    [keys |-> {"original_kb", "processed_content", "global_keywords",
               "topic_clusters", "search_index", "statistics", "processed_at"},
     pages |-> [i \in DOMAIN processed_content |-> asdict(processed_content[i])]]

\* the document save_knowledge_base writes and json.load reads back
save_knowledge_base(processed_content) ==
    [keys |-> {"website_url", "domain", "scraped_pages", "total_word_count",
               "created_at", "metadata"},
     pages |-> [i \in DOMAIN processed_content |->
                   asdict(processed_content[i]).original_content]]

\* the score of the raw branch of perform_search, in half points
RawScore(page_data, q) ==
    (IF Contains(Lower(page_data.title), Lower(q)) THEN 6 ELSE 0)
    + (IF Contains(Lower(page_data.text_content), Lower(q)) THEN 2 ELSE 0)

RECURSIVE RawRelevant(_, _, _)
RawRelevant(pages, q, i) ==
    IF i >= Len(pages) THEN <<>>
    ELSE LET score == RawScore(pages[i + 1], q)
         IN  (IF score > 0 THEN <<[key |-> score, val |-> i]>> ELSE <<>>)
             \o RawRelevant(pages, q, i + 1)

\* perform_search on a loaded document; an exception ends in
\* "Error during search" and sys.exit(1)
perform_search(kb_data, q) ==
    IF "processed_content" \in kb_data.keys
    THEN LET found == search_kb(kb_data.pages, q)
         IN  IF found.status = "ok" THEN found
             ELSE [status |-> "error", hits |-> <<>>]
    ELSE [status |-> "ok",
          hits |-> Hits(Take(SortDescending(RawRelevant(kb_data.pages, q, 0)), TopK))]

\* " ".join(words)
RECURSIVE JoinWords(_)
JoinWords(words) ==
    IF words = <<>> THEN <<>>
    ELSE IF Len(words) = 1 THEN words[1]
    ELSE words[1] \o Space \o JoinWords(Tail(words))

\* the keys build_search_index appends page i under for the key phrases
RECURSIVE PhraseKeys(_)
PhraseKeys(phrases) ==
    IF phrases = <<>> THEN <<>>
    ELSE LET phrase_words == Split(Lower(Head(phrases)))
         IN  (IF Len(phrase_words) >= 2 THEN <<JoinWords(phrase_words)>> ELSE <<>>)
             \o PhraseKeys(Tail(phrases))

\* the keys page i is appended under, in the order of the two inner loops
IndexKeys(content) ==
    [j \in DOMAIN content.keywords |-> Lower(content.keywords[j])]
    \o PhraseKeys(content.key_phrases)

\* the appends of build_search_index, in order, from page i on
RECURSIVE Postings(_, _)
Postings(pages, i) ==
    IF i >= Len(pages) THEN <<>>
    ELSE LET keys == IndexKeys(pages[i + 1])
         IN  [j \in DOMAIN keys |-> [key |-> keys[j], page |-> i]]
             \o Postings(pages, i + 1)

\* build_search_index: every key with the list of page indices appended
\* to it
build_search_index(processed_content) ==
    LET postings == Postings(processed_content, 0)
        keys == {postings[n].key : n \in DOMAIN postings}
    IN  [k \in keys |->
            LET Under(e) == e.key = k
                under == SelectSeq(postings, Under)
            IN  [n \in DOMAIN under |-> under[n].page]]

\* seq laid out n times in a row
RECURSIVE Repeat(_, _)
Repeat(seq, n) == IF n <= 0 THEN <<>> ELSE seq \o Repeat(seq, n - 1)

Corpora ==
    {Repeat([i \in DOMAIN run |-> ProcessedContent(run[i])], n) :
        run \in SeqsUpTo(PageKinds, MaxCorpusRun), n \in 1..MaxCorpusRepeat}

NoFile == [keys |-> {}, pages |-> <<>>]
NoResults == [op |-> "none", status |-> "none", hits |-> <<>>]

InitSearch ==
    /\ corpus \in Corpora
    /\ query \in Queries
    /\ results = NoResults
    /\ kb_file = NoFile
    /\ search_pc = "ready"

\* processor.search_kb(enhanced_kb, query) on the knowledge base in memory
SearchKb ==
    /\ search_pc = "ready"
    /\ results' = [op |-> "search_kb"] @@ search_kb(corpus, query)
    /\ UNCHANGED <<corpus, query, kb_file, search_pc>>

SaveEnhancedKb ==
    /\ search_pc = "ready"
    /\ kb_file' = save_enhanced_kb(corpus)
    /\ UNCHANGED <<corpus, query, results, search_pc>>

SaveKnowledgeBase ==
    /\ search_pc = "ready"
    /\ kb_file' = save_knowledge_base(corpus)
    /\ UNCHANGED <<corpus, query, results, search_pc>>

\* main --search QUERY --kb-file FILE
PerformSearch ==
    /\ search_pc = "ready"
    /\ kb_file # NoFile
    /\ results' =
          [op |-> IF "processed_content" \in kb_file.keys
                  THEN "perform_search_enhanced" ELSE "perform_search_raw"]
          @@ perform_search(kb_file, query)
    /\ UNCHANGED <<corpus, query, kb_file, search_pc>>

\* processor.build_search_index(processed_content), as
\* process_knowledge_base calls it
BuildSearchIndex ==
    /\ search_pc = "ready"
    /\ results' = [op |-> "build_search_index", status |-> "built", hits |-> <<>>,
                   search_index |-> build_search_index(corpus)]
    /\ UNCHANGED <<corpus, query, kb_file, search_pc>>

NextSearch ==
    \/ SearchKb /\ UNCHANGED <<crawlVars, sumVars>>
    \/ SaveEnhancedKb /\ UNCHANGED <<crawlVars, sumVars>>
    \/ SaveKnowledgeBase /\ UNCHANGED <<crawlVars, sumVars>>
    \/ PerformSearch /\ UNCHANGED <<crawlVars, sumVars>>
    \/ BuildSearchIndex /\ UNCHANGED <<crawlVars, sumVars>>

SearchInit == IdleCrawler /\ IdleSummary /\ InitSearch

SpecSearch == SearchInit /\ [][NextSearch]_vars

-----------------------------------------------------------------------------
(* Properties of the query engine *)

QueryWords == Split(Lower(query))

\* the indices of the pages of the corpus, counted from 0
PageIndices == 0..(Len(corpus) - 1)

\* the score the executed search gives page p of the corpus
ScoreInCorpus(p) ==
    IF results.op = "perform_search_raw"
    THEN RawScore(corpus[p + 1].original_content, query)
    ELSE PageScore(corpus[p + 1], QueryWords)

HitIndices == {results.hits[i].page_index : i \in DOMAIN results.hits}

\* C8: a result list, of the enhanced or of the raw search, is sorted
\* non-increasing by score, has at most 10 entries, holds only pages of
\* score > 0, and leaves out a page of score > 0 only when it is full and
\* no entry has a lower score.
C8_RankedTopTen ==
    results.status = "ok" =>
        LET hits == results.hits
        IN  /\ Len(hits) <= 10
            /\ \A i \in 1..(Len(hits) - 1) : hits[i].score >= hits[i + 1].score
            /\ \A i \in DOMAIN hits :
                  /\ hits[i].page_index \in PageIndices
                  /\ hits[i].score > 0
                  /\ hits[i].score = ScoreInCorpus(hits[i].page_index)
            /\ \A i, j \in DOMAIN hits :
                  i # j => hits[i].page_index # hits[j].page_index
            /\ \A p \in PageIndices \ HitIndices :
                  ScoreInCorpus(p) > 0 =>
                      /\ Len(hits) = 10
                      /\ \A i \in DOMAIN hits : hits[i].score >= ScoreInCorpus(p)

\* a full result list of mixed scores that leaves out a page of score > 0
C8_Witness ==
    /\ results.status = "ok"
    /\ Len(results.hits) = 10
    /\ results.hits[1].score > results.hits[10].score
    /\ \E p \in PageIndices \ HitIndices : ScoreInCorpus(p) > 0

\* the score of the claim, in half points: 2 per query word among the
\* keywords, 3 per query word present in the title, 1.5 per key phrase
\* containing a query word, 1 if a query word occurs in the raw text
ClaimedScore(content) ==
    LET words == QueryWords
        title == Lower(content.original_content.title)
        text == Lower(content.original_content.text_content)
    IN  4 * Cardinality({i \in DOMAIN words : words[i] \in Range(content.keywords)})
        + 6 * Cardinality({i \in DOMAIN words : Contains(title, words[i])})
        + 3 * Cardinality({j \in DOMAIN content.key_phrases :
                \E i \in DOMAIN words :
                    Contains(Lower(content.key_phrases[j]), words[i])})
        + (IF \E i \in DOMAIN words : Contains(text, words[i]) THEN 2 ELSE 0)

\* the pages whose title contains the first query word
TitleMatches ==
    {q \in PageIndices :
        Contains(Lower(corpus[q + 1].original_content.title), QueryWords[1])}

\* the first query word matches no keyword, key phrase or text of the corpus
NoOtherMatch ==
    \A q \in PageIndices :
        LET content == corpus[q + 1]
            word == QueryWords[1]
        IN  /\ word \notin Range(content.keywords)
            /\ \A j \in DOMAIN content.key_phrases :
                  ~Contains(Lower(content.key_phrases[j]), word)
            /\ ~Contains(Lower(content.original_content.text_content), word)

\* the query is one term that matches the title of page p and nothing else
\* in the corpus
MatchesOnlyTitleOf(p) ==
    /\ Len(QueryWords) = 1
    /\ TitleMatches = {p}
    /\ NoOtherMatch

\* C9: search_kb scores every enhanced page by the claimed formula; a
\* query term that matches only one page's title ranks that page first
\* with score exactly 3 (6 half points).
C9_ScoreFormula ==
    /\ results.op = "none" =>
          \A p \in PageIndices :
              PageScore(corpus[p + 1], QueryWords) = ClaimedScore(corpus[p + 1])
    /\ results.op = "search_kb" =>
          /\ \A i \in DOMAIN results.hits :
                results.hits[i].score = ClaimedScore(corpus[results.hits[i].page_index + 1])
          /\ Len(QueryWords) = 1 =>
                LET matches == TitleMatches
                IN  \A p \in matches :
                        (matches = {p} /\ NoOtherMatch) =>
                            results.hits = <<[page_index |-> p, score |-> 6]>>

\* a search of several pages whose term matches one title and nothing else
C9_Witness ==
    /\ results.op = "search_kb"
    /\ Len(corpus) >= 2
    /\ \E p \in PageIndices : p > 0 /\ MatchesOnlyTitleOf(p)

\* a search in which a page scores on keywords, title, key phrases and text
C9_AllFourParts ==
    /\ results.op = "search_kb"
    /\ Len(QueryWords) = 2
    /\ \E i \in DOMAIN results.hits : results.hits[i].score = 25

\* C10 (as claimed): perform_search on the document save_enhanced_kb wrote
\* ends without error and returns the ranked list search_kb returns on the
\* enhanced knowledge base in memory.
C10_ReloadedSearchAgrees ==
    results.op = "perform_search_enhanced" =>
        /\ results.status = "ok"
        /\ results.hits = search_kb(corpus, query).hits

\* page i has a keyword whose lowercase form is k, or a key phrase of at
\* least 2 words whose lowercased space-joined form is k
ListedUnder(k, content) ==
    \/ \E j \in DOMAIN content.keywords : Lower(content.keywords[j]) = k
    \/ \E j \in DOMAIN content.key_phrases :
          LET phrase_words == Split(Lower(content.key_phrases[j]))
          IN  Len(phrase_words) >= 2 /\ JoinWords(phrase_words) = k

\* the built index lists page i under key k exactly when the page has the
\* keyword or key phrase, and has every such key
IndexMembership ==
    results.op = "build_search_index" =>
        LET index == results.search_index
        IN  /\ \A k \in DOMAIN index : \A i \in PageIndices :
                  (\E n \in DOMAIN index[k] : index[k][n] = i)
                      <=> ListedUnder(k, corpus[i + 1])
            /\ \A i \in PageIndices :
                  \A k \in Range(IndexKeys(corpus[i + 1])) : k \in DOMAIN index

\* C14 (as claimed): under every key of the built index no page index
\* occurs more than once, and page i is listed under key k exactly when the
\* page has the keyword or key phrase.
C14_IndexHoldsSets ==
    /\ IndexMembership
    /\ results.op = "build_search_index" =>
          \A k \in DOMAIN results.search_index :
              LET pages == results.search_index[k]
              IN  \A m, n \in DOMAIN pages : m # n => pages[m] # pages[n]

====
